---- MODULE Spec2Model ----
(***************************************************************************)
(* repoforge: a directory walk that renders an ASCII tree of a repository, *)
(* summarises its files and assembles both into one prompt.                *)
(*                                                                         *)
(* Two near-duplicate programs are modelled: src/generator.py (module      *)
(* constants, "generator") and src/repoforge/repoforge.py (caller-supplied *)
(* configuration, "repoforge").                                            *)
(*                                                                         *)
(* Text is a sequence of one-character strings.  A literal that the code   *)
(* emits as one piece (a tag, a connector, a placeholder sentence) is kept *)
(* as one multi-character element, so that it can never be confused with   *)
(* file or message content.  TLA+ strings are ASCII, so the box-drawing    *)
(* connectors are written "|-- " for U+251C U+2500 U+2500 SPACE, "+-- "    *)
(* for U+2514 U+2500 U+2500 SPACE and "|   " for U+2502 SPACE SPACE SPACE. *)
(***************************************************************************)
EXTENDS Integers, Sequences, FiniteSets, TLC

VARIABLES
    variant,              \* "generator" (src/generator.py) or "repoforge"
    root_name,            \* os.path.basename(os.path.normpath(root_dir))
    fs,                   \* the file system below root_dir: path -> node
    ignored_dirs,         \* configuration: set of names
    ignored_extensions,   \* configuration: set of extensions
    max_file_size_bytes,  \* configuration
    max_lines,            \* configuration (max_summary_lines)
    system_message,       \* argument of generate_prompt / format_prompt_xml
    user_instructions,    \* argument of generate_prompt / format_prompt_xml
    pc,                   \* position of the single thread of control
    directory_tree,       \* the string returned by create_directory_tree
    walk_stack,           \* os.walk: directories still to be yielded
    repo_summary,         \* create_repo_summary: list of directory entries
    listed,               \* directories os.listdir has been called on
    walked,               \* directories os.walk has scanned
    opened,               \* files that summarize_text_file has opened
    exc,                  \* the exception in flight, or NoException
    prompt,               \* the string returned by format_prompt_xml
    stdout,               \* lines printed by the CLI entry point
    exit_code,            \* process exit status, -1 while running
    sum_result            \* summarize_text_file called on its own: its result

vars == <<variant, root_name, fs, ignored_dirs, ignored_extensions,
          max_file_size_bytes, max_lines, system_message, user_instructions,
          pc, directory_tree, walk_stack, repo_summary, listed, walked,
          opened, exc,
          prompt, stdout, exit_code, sum_result>>

(***************************************************************************)
(* Bounds of the model                                                     *)
(***************************************************************************)
MaxContentLen == 3
MaxCap == 2
MaxMsgLen == 3

(***************************************************************************)
(* Characters and strings                                                  *)
(***************************************************************************)
NL == "\n"
CR == "\r"

Min(a, b) == IF a <= b THEN a ELSE b

\* All character sequences over alphabet of length at most n.
StringsUpTo(alphabet, n) == UNION {[1..k -> alphabet] : k \in 0..n}

\* ord() of the characters that occur in the modelled names.
Ord(c) ==
    CASE c = "." -> 46
      [] c = "G" -> 71
      [] c = "N" -> 78
      [] c = "P" -> 80
      [] c = "a" -> 97
      [] c = "b" -> 98
      [] c = "c" -> 99
      [] c = "g" -> 103
      [] c = "i" -> 105
      [] c = "n" -> 110
      [] c = "o" -> 111
      [] c = "p" -> 112
      [] c = "r" -> 114
      [] c = "s" -> 115
      [] c = "t" -> 116
      [] c = "x" -> 120
      [] c = "z" -> 122
      [] OTHER -> 0

\* str.lower() on one character.
LowerChar(c) ==
    CASE c = "G" -> "g"
      [] c = "N" -> "n"
      [] c = "P" -> "p"
      [] OTHER -> c

\* str.lower()
Lower(s) == [i \in 1..Len(s) |-> LowerChar(s[i])]

\* Python's str comparison: lexicographic on code points.
RECURSIVE StrLess(_, _)
StrLess(a, b) ==
    IF b = <<>> THEN FALSE
    ELSE IF a = <<>> THEN TRUE
    ELSE IF Ord(Head(a)) # Ord(Head(b)) THEN Ord(Head(a)) < Ord(Head(b))
    ELSE StrLess(Tail(a), Tail(b))

\* sorted(names): the names in ascending order.
RECURSIVE Sorted(_)
Sorted(names) ==
    IF names = {} THEN <<>>
    ELSE LET least == CHOOSE x \in names : \A y \in names \ {x} : StrLess(x, y)
         IN <<least>> \o Sorted(names \ {least})

\* sep.join(parts) for a one-character separator.
RECURSIVE Join(_, _)
Join(sep, parts) ==
    IF parts = <<>> THEN <<>>
    ELSE IF Len(parts) = 1 THEN parts[1]
    ELSE parts[1] \o <<sep>> \o Join(sep, Tail(parts))

\* os.path.splitext(name)[1]: from the last dot on, unless only dots precede it.
LastDot(name) ==
    LET dots == {i \in 1..Len(name) : name[i] = "."}
    IN IF dots = {} THEN 0 ELSE CHOOSE i \in dots : \A j \in dots : j <= i

splitext(name) ==
    LET d == LastDot(name)
    IN IF d > 0 /\ \E i \in 1..(d - 1) : name[i] # "."
       THEN SubSeq(name, d, Len(name))
       ELSE <<>>

(***************************************************************************)
(* summarize_text_file                                                     *)
(***************************************************************************)
TruncatedMarker == <<"... [Truncated]">>
ErrorReadingFile == <<"Error reading file: {e}">>

\* Text mode with newline=None: "\r\n" and a lone "\r" are read as "\n".
RECURSIVE UniversalNewlines(_)
UniversalNewlines(s) ==
    IF s = <<>> THEN <<>>
    ELSE IF Head(s) = CR
         THEN IF Len(s) >= 2 /\ s[2] = NL
              THEN <<NL>> \o UniversalNewlines(Tail(Tail(s)))
              ELSE <<NL>> \o UniversalNewlines(Tail(s))
         ELSE <<Head(s)>> \o UniversalNewlines(Tail(s))

\* Iterating a text file: the lines, each keeping its terminating "\n".
RECURSIVE SplitKeepEnds(_, _)
SplitKeepEnds(s, cur) ==
    IF s = <<>> THEN (IF cur = <<>> THEN <<>> ELSE <<cur>>)
    ELSE IF Head(s) = NL
         THEN <<Append(cur, NL)>> \o SplitKeepEnds(Tail(s), <<>>)
         ELSE SplitKeepEnds(Tail(s), Append(cur, Head(s)))

FileLines(content) == SplitKeepEnds(UniversalNewlines(content), <<>>)

\* line.rstrip('\n')
RECURSIVE RstripNewlines(_)
RstripNewlines(line) ==
    IF line # <<>> /\ line[Len(line)] = NL
    THEN RstripNewlines(SubSeq(line, 1, Len(line) - 1))
    ELSE line

\* Mutant of ReachedCap: an off-by-one in the cap test.
ReachedCapOffByOne(i, cap) == i > cap

\* if i >= max_lines
ReachedCap(i, cap) == i >= cap

\* The for loop over enumerate(f); i is the 0-based index of the next line.
RECURSIVE SummarizeLoop(_, _, _, _)
SummarizeLoop(lines, i, cap, summary_lines) ==
    IF i >= Len(lines) THEN summary_lines
    ELSE IF ReachedCap(i, cap) THEN Append(summary_lines, TruncatedMarker)
    ELSE SummarizeLoop(lines, i + 1, cap,
                       Append(summary_lines, RstripNewlines(lines[i + 1])))

\* summarize_text_file(filepath, max_lines); file is the node at filepath.
\* open() or the decoding of any chunk may raise: every exception is caught.
summarize_text_file(file, cap) ==
    LET summary_lines ==
            IF file.readable
            THEN SummarizeLoop(FileLines(file.content), 0, cap, <<>>)
            ELSE <<ErrorReadingFile>>
    IN Join(NL, summary_lines)

(***************************************************************************)
(* Names, configuration constants and the file system                      *)
(***************************************************************************)
GIT == <<".", "g", "i", "t">>
SRC == <<"s", "r", "c">>
REPO == <<"r", "e", "p", "o">>
A_TXT == <<"a", ".", "t", "x", "t">>
B_PNG_UPPER == <<"b", ".", "P", "N", "G">>
C_TXT == <<"c", ".", "t", "x", "t">>
Z_PNG == <<"z", ".", "p", "n", "g">>

EXT_PNG == <<".", "p", "n", "g">>
EXT_PNG_UPPER == <<".", "P", "N", "G">>

\* IGNORED_DIRS / DEFAULT_IGNORED_DIRS
DEFAULT_IGNORED_DIRS ==
    { GIT,
      <<"_", "_", "p", "y", "c", "a", "c", "h", "e", "_", "_">>,
      <<".", "i", "d", "e", "a">>,
      <<".", "v", "s", "c", "o", "d", "e">> }

\* IGNORED_EXTENSIONS / DEFAULT_IGNORED_EXTENSIONS
DEFAULT_IGNORED_EXTENSIONS ==
    { <<".", "p", "y", "c">>, EXT_PNG, <<".", "j", "p", "g">>,
      <<".", "j", "p", "e", "g">>, <<".", "g", "i", "f">>,
      <<".", "p", "d", "f">>, <<".", "z", "i", "p">> }

MAX_FILE_SIZE_BYTES == 100000
MAX_SUMMARY_LINES == 500

\* A node of the file system.  kind "link" is a dangling symbolic link.
\* size is what os.path.getsize reports; content is what reading yields.
\* readable: for a file, open() and decoding succeed; for a directory,
\* listing it succeeds.
Node(kind, readable, size, content) ==
    [kind |-> kind, readable |-> readable, size |-> size, content |-> content]

DirNode == Node("dir", TRUE, 0, <<>>)
UnreadableDirNode == Node("dir", FALSE, 0, <<>>)
LinkNode == Node("link", FALSE, 0, <<>>)

SmallContent == <<"x", NL, "x", NL>>
SmallFile == Node("file", TRUE, Len(SmallContent), SmallContent)
UnreadableFile == Node("file", FALSE, Len(SmallContent), SmallContent)
FileOfSize(n) == Node("file", TRUE, n, SmallContent)

NoFiles == [p \in {} |-> DirNode]
One(path, node) == [p \in {path} |-> node]

ROOT == <<>>

\* os.path.isdir: false for a missing path and for a dangling link.
isdir(path) == path \in DOMAIN fs /\ fs[path].kind = "dir"

\* The names of the entries of directory path.
ChildNames(path) ==
    {q[Len(q)] : q \in {r \in DOMAIN fs : /\ Len(r) = Len(path) + 1
                                          /\ SubSeq(r, 1, Len(path)) = path}}

(***************************************************************************)
(* create_directory_tree                                                   *)
(***************************************************************************)
LAST_CONNECTOR == "+-- "
MID_CONNECTOR == "|-- "
LAST_INDENT == "    "
MID_INDENT == "|   "

\* ext.lower() in ignored_extensions
ExtIgnored(name) == Lower(splitext(name)) \in ignored_extensions

\* entries = [e for e in sorted(os.listdir(path)) if e not in ignored_dirs]
TreeEntries(path) ==
    SelectSeq(Sorted(ChildNames(path)), LAMBDA e : e \notin ignored_dirs)

\* generator.py skips files with an ignored extension after the connector
\* has been chosen; repoforge.py lists every file.
TreeSkipsFile(entry) == variant = "generator" /\ ExtIgnored(entry)

RECURSIVE walk_directory(_, _)
RECURSIVE WalkEntries(_, _, _, _)

\* The loop over enumerate(entries), from the i-th entry (1-based) on.
\* Result: the lines appended, the directories listed, and whether
\* os.listdir raised (the exception leaves every enclosing call).
WalkEntries(path, prefix, entries, i) ==
    IF i > Len(entries)
    THEN [lines |-> <<>>, listed |-> {}, raised |-> FALSE]
    ELSE
      LET entry == entries[i]
          full_path == Append(path, entry)
          is_last == (i = Len(entries))
          connector == IF is_last THEN LAST_CONNECTOR ELSE MID_CONNECTOR
      IN IF isdir(full_path)
         THEN LET new_prefix ==
                      prefix \o <<IF is_last THEN LAST_INDENT ELSE MID_INDENT>>
                  sub == walk_directory(full_path, new_prefix)
                  rest == WalkEntries(path, prefix, entries, i + 1)
              IN IF sub.raised
                 THEN [lines |-> <<>>, listed |-> sub.listed, raised |-> TRUE]
                 ELSE [lines |-> <<prefix \o <<connector>> \o entry \o <<"/">>>>
                                 \o sub.lines \o rest.lines,
                       listed |-> sub.listed \cup rest.listed,
                       raised |-> rest.raised]
         ELSE LET rest == WalkEntries(path, prefix, entries, i + 1)
              IN IF TreeSkipsFile(entry)
                 THEN rest
                 ELSE [lines |-> <<prefix \o <<connector>> \o entry>>
                                 \o rest.lines,
                       listed |-> rest.listed,
                       raised |-> rest.raised]

\* walk_directory(path, prefix); os.listdir raises on a path that is no
\* directory and on an unreadable directory.
walk_directory(path, prefix) ==
    IF ~(isdir(path) /\ fs[path].readable)
    THEN [lines |-> <<>>, listed |-> {}, raised |-> TRUE]
    ELSE LET r == WalkEntries(path, prefix, TreeEntries(path), 1)
         IN [lines |-> r.lines, listed |-> {path} \cup r.listed,
             raised |-> r.raised]

\* create_directory_tree(root_dir)
create_directory_tree ==
    LET r == walk_directory(ROOT, <<>>)
    IN [tree |-> Join(NL, <<root_name \o <<"/">>>> \o r.lines),
        listed |-> r.listed, raised |-> r.raised]

(***************************************************************************)
(* create_repo_summary                                                     *)
(***************************************************************************)
\* f"File size ({size_bytes} bytes) exceeds limit; skipping content."
SizePlaceholder(size_bytes) ==
    <<"File size (", ToString(size_bytes),
      " bytes) exceeds limit; skipping content.">>

\* Mutant of SizeExceeds: a file exactly at the limit is skipped too.
SizeExceedsOrEquals(size_bytes, limit) == size_bytes >= limit

\* if size_bytes > max_file_size_bytes
SizeExceeds(size_bytes, limit) == size_bytes > limit

\* Mutant of WalkDirsFilter: the in-place filtering of dirs is lost.
WalkDirsUnfiltered(dirs) == dirs

\* dirs[:] = [d for d in dirs if d not in ignored_dirs]
WalkDirsFilter(dirs) == {d \in dirs : d \notin ignored_dirs}

\* Mutant of AppendEntry: the "if file_summaries" test is dropped.
AppendEntryAlways(summary, rel_dir, file_summaries) ==
    Append(summary, [directory |-> rel_dir, files |-> file_summaries])

\* if file_summaries: repo_summary.append({...})
AppendEntry(summary, rel_dir, file_summaries) ==
    IF file_summaries # <<>>
    THEN Append(summary, [directory |-> rel_dir, files |-> file_summaries])
    ELSE summary

\* The loop "for filename in files", from the i-th file (1-based) on.
\* Result: the FileSummary records appended, the files opened, and whether
\* os.path.getsize raised (nothing catches it).
RECURSIVE SummarizeFiles(_, _, _)
SummarizeFiles(current_path, files, i) ==
    IF i > Len(files)
    THEN [summaries |-> <<>>, opened |-> {}, raised |-> FALSE]
    ELSE
      LET filename == files[i]
          full_path == Append(current_path, filename)
          node == fs[full_path]
      IN IF ExtIgnored(filename)
         THEN SummarizeFiles(current_path, files, i + 1)
         ELSE IF node.kind = "link"
         THEN [summaries |-> <<>>, opened |-> {}, raised |-> TRUE]
         ELSE
           LET rest == SummarizeFiles(current_path, files, i + 1)
           IN IF SizeExceeds(node.size, max_file_size_bytes)
              THEN [summaries |->
                        <<[name |-> filename,
                           summary |-> SizePlaceholder(node.size)]>>
                        \o rest.summaries,
                    opened |-> rest.opened,
                    raised |-> rest.raised]
              ELSE [summaries |->
                        <<[name |-> filename,
                           summary |-> summarize_text_file(node, max_lines)]>>
                        \o rest.summaries,
                    opened |-> {full_path} \cup rest.opened,
                    raised |-> rest.raised]

\* The orders in which os.scandir may hand out a set of names.
Orders(names) ==
    {o \in [1..Cardinality(names) -> names] :
        \A i, j \in 1..Cardinality(names) : i # j => o[i] # o[j]}

\* os.walk's split of a directory's entries: is_dir() is false for a
\* dangling link, which therefore counts as a file.
WalkDirs(path) == {n \in ChildNames(path) : isdir(Append(path, n))}
WalkFiles(path) == ChildNames(path) \ WalkDirs(path)

(***************************************************************************)
(* format_prompt_xml                                                       *)
(***************************************************************************)
NO_SYSTEM_MESSAGE == <<"No system message provided.">>
NO_USER_INSTRUCTIONS == <<"No user instructions provided.">>
SYSTEM_OPEN == "<SYSTEM_MESSAGE>"
SYSTEM_CLOSE == "</SYSTEM_MESSAGE>"
USER_OPEN == "<USER_INSTRUCTIONS>"
USER_CLOSE == "</USER_INSTRUCTIONS>"
CONTENTS_OPEN == "<REPOSITORY_CONTENTS>"
CONTENTS_CLOSE == "</REPOSITORY_CONTENTS>"
TREE_HEADER == "DIRECTORY TREE:"

\* str.isspace() on the characters of the modelled messages.
IsSpace(c) == c \in {" ", NL, CR, "\t"}

\* str.lstrip() / str.rstrip() / str.strip()
RECURSIVE Lstrip(_)
Lstrip(s) == IF s # <<>> /\ IsSpace(Head(s)) THEN Lstrip(Tail(s)) ELSE s

RECURSIVE Rstrip(_)
Rstrip(s) ==
    IF s # <<>> /\ IsSpace(s[Len(s)])
    THEN Rstrip(SubSeq(s, 1, Len(s) - 1))
    ELSE s

\* Mutant of Strip: only the left side is trimmed.
StripLeftOnly(s) == Lstrip(s)

Strip(s) == Rstrip(Lstrip(s))

\* message.strip() if message else fallback
MessageOrFallback(message, fallback) ==
    IF message # <<>> THEN Strip(message) ELSE fallback

\* str.split("\n")
RECURSIVE SplitAcc(_, _)
SplitAcc(s, cur) ==
    IF s = <<>> THEN <<cur>>
    ELSE IF Head(s) = NL THEN <<cur>> \o SplitAcc(Tail(s), <<>>)
    ELSE SplitAcc(Tail(s), Append(cur, Head(s)))

Split(s) == SplitAcc(s, <<>>)

\* The parts appended for one file of a directory entry.
FileParts(file_info) ==
    <<<<"    <file name=\"">> \o file_info.name \o <<"\">">>,
      <<"      <content>">>>>
    \o [i \in 1..Len(Split(file_info.summary)) |->
            <<"         ">> \o Split(file_info.summary)[i]]
    \o <<<<"      </content>">>, <<"    </file>">>>>

RECURSIVE FilesParts(_)
FilesParts(files) ==
    IF files = <<>> THEN <<>>
    ELSE FileParts(Head(files)) \o FilesParts(Tail(files))

\* The parts appended for one directory entry; entry['directory'] is the
\* relative path, written here with "/" as os.sep.
EntryParts(entry) ==
    LET dir_path == IF entry.directory # <<>>
                    THEN Join("/", entry.directory)
                    ELSE <<"(top-level)">>
    IN <<<<"  <directory name=\"">> \o dir_path \o <<"\">">>>>
       \o FilesParts(entry.files)
       \o <<<<"  </directory>">>>>

RECURSIVE EntriesParts(_)
EntriesParts(summary) ==
    IF summary = <<>> THEN <<>>
    ELSE EntryParts(Head(summary)) \o EntriesParts(Tail(summary))

\* format_prompt_xml(repo_summary, directory_tree, system_message,
\*                   user_instructions)
format_prompt_xml(summary, tree, sys_msg, user_msg) ==
    LET prompt_parts ==
            << <<TREE_HEADER>>,
               tree,
               <<>>,
               <<SYSTEM_OPEN>>,
               MessageOrFallback(sys_msg, NO_SYSTEM_MESSAGE),
               <<SYSTEM_CLOSE, NL>>,
               <<USER_OPEN>>,
               MessageOrFallback(user_msg, NO_USER_INSTRUCTIONS),
               <<USER_CLOSE, NL>>,
               <<CONTENTS_OPEN>> >>
            \o EntriesParts(summary)
            \o << <<CONTENTS_CLOSE>> >>
    IN Join(NL, prompt_parts)

(***************************************************************************)
(* Initial states: a file system and a configuration                       *)
(***************************************************************************)
NoException == <<>>
ValueError == <<"Directory {repo_dir} does not exist.">>
OSError == <<"OSError">>

\* A directory named .git below the root, or a plain file of that name.
GitPart(o) ==
    CASE o = "absent" -> NoFiles
      [] o = "file" -> One(<<GIT>>, SmallFile)
      [] o = "emptydir" -> One(<<GIT>>, DirNode)
      [] o = "fulldir" -> One(<<GIT>>, DirNode)
                          @@ One(<<GIT, C_TXT>>, SmallFile)
                          @@ One(<<GIT, SRC>>, DirNode)
                          @@ One(<<GIT, SRC, A_TXT>>, SmallFile)

SrcOptions ==
    {[state |-> "absent", has |-> {}], [state |-> "unreadable", has |-> {}]}
    \cup {[state |-> "dir", has |-> h] : h \in SUBSET {"git", "a", "b"}}

\* A directory src with any of .git/c.txt, a.txt and b.PNG in it.
SrcPart(o) ==
    IF o.state = "absent" THEN NoFiles
    ELSE IF o.state = "unreadable" THEN One(<<SRC>>, UnreadableDirNode)
    ELSE One(<<SRC>>, DirNode)
         @@ (IF "git" \in o.has
             THEN One(<<SRC, GIT>>, DirNode) @@ One(<<SRC, GIT, C_TXT>>, SmallFile)
             ELSE NoFiles)
         @@ (IF "a" \in o.has THEN One(<<SRC, A_TXT>>, SmallFile) ELSE NoFiles)
         @@ (IF "b" \in o.has THEN One(<<SRC, B_PNG_UPPER>>, SmallFile)
             ELSE NoFiles)

FileOptions == {"absent", "small", "atlimit", "big", "unreadable", "link"}

\* One file below the root: its size relative to limit, or what is wrong
\* with it.
FilePart(name, o, limit) ==
    CASE o = "absent" -> NoFiles
      [] o = "small" -> One(<<name>>, SmallFile)
      [] o = "atlimit" -> One(<<name>>, FileOfSize(limit))
      [] o = "big" -> One(<<name>>, FileOfSize(limit + 1))
      [] o = "unreadable" -> One(<<name>>, UnreadableFile)
      [] o = "link" -> One(<<name>>, LinkNode)

\* generator.py runs with its module constants; repoforge.py with what the
\* caller of generate_prompt passes: the default sets and the default line
\* cap are among the choices.  The default size limit of repoforge.py,
\* 1e20, is beyond the integers of the model checker; a caller-supplied
\* limit of a few bytes takes its place, so that sizes below, at and above
\* the limit all occur.
Configurations ==
    {[variant |-> "generator",
      ignored_dirs |-> DEFAULT_IGNORED_DIRS,
      ignored_extensions |-> DEFAULT_IGNORED_EXTENSIONS,
      max_file_size_bytes |-> MAX_FILE_SIZE_BYTES,
      max_lines |-> MAX_SUMMARY_LINES]}
    \cup
    [variant : {"repoforge"},
     ignored_dirs : {DEFAULT_IGNORED_DIRS, {SRC}, {}},
     ignored_extensions : {DEFAULT_IGNORED_EXTENSIONS, {EXT_PNG_UPPER}, {}},
     max_file_size_bytes : {Len(SmallContent)},
     max_lines : {1, MAX_SUMMARY_LINES}]

InitControl ==
    /\ directory_tree = <<>>
    /\ walk_stack = <<>>
    /\ repo_summary = <<>>
    /\ listed = {}
    /\ walked = {}
    /\ opened = {}
    /\ exc = NoException
    /\ prompt = <<>>
    /\ stdout = <<>>
    /\ exit_code = -1
    /\ sum_result = <<>>

Init ==
    /\ \E c \in Configurations :
          /\ variant = c.variant
          /\ ignored_dirs = c.ignored_dirs
          /\ ignored_extensions = c.ignored_extensions
          /\ max_file_size_bytes = c.max_file_size_bytes
          /\ max_lines = c.max_lines
    /\ root_name \in {REPO, GIT}
    /\ \/ fs = NoFiles
       \/ fs = One(ROOT, SmallFile)
       \/ \E g \in {"absent", "file", "emptydir", "fulldir"}, s \in SrcOptions,
             a \in FileOptions, z \in {"absent", "small", "big"} :
             fs = One(ROOT, DirNode) @@ GitPart(g) @@ SrcPart(s)
                  @@ FilePart(A_TXT, a, max_file_size_bytes)
                  @@ FilePart(Z_PNG, z, max_file_size_bytes)
    /\ system_message = <<" ", "a">>
    /\ user_instructions = <<>>
    /\ pc = "start"
    /\ InitControl

(***************************************************************************)
(* generate_prompt and the CLI entry point                                 *)
(***************************************************************************)
\* Mutant of RootIsDir: the existence check is lost.
RootCheckSkipped == TRUE

\* os.path.isdir(repo_dir)
RootIsDir == isdir(ROOT)

\* if not os.path.isdir(repo_dir): raise ValueError(...)
CheckRootDir ==
    /\ pc = "start"
    /\ IF RootIsDir
       THEN pc' = "tree" /\ exc' = exc
       ELSE pc' = "raised" /\ exc' = ValueError
    /\ UNCHANGED <<variant, root_name, fs, ignored_dirs, ignored_extensions,
                   max_file_size_bytes, max_lines, system_message,
                   user_instructions, directory_tree, walk_stack, repo_summary,
                   listed, walked, opened, prompt, stdout, exit_code,
                   sum_result>>

\* directory_tree = create_directory_tree(repo_dir, ...)
CreateDirectoryTree ==
    /\ pc = "tree"
    /\ LET r == create_directory_tree
       IN /\ listed' = listed \cup r.listed
          /\ IF r.raised
             THEN /\ pc' = "raised"
                  /\ exc' = OSError
                  /\ UNCHANGED <<directory_tree, walk_stack>>
             ELSE /\ pc' = "walk"
                  /\ directory_tree' = r.tree
                  /\ walk_stack' = <<ROOT>>
                  /\ exc' = exc
    /\ UNCHANGED <<variant, root_name, fs, ignored_dirs, ignored_extensions,
                   max_file_size_bytes, max_lines, system_message,
                   user_instructions, repo_summary, walked, opened, prompt,
                   stdout, exit_code, sum_result>>

\* One iteration of "for current_path, dirs, files in os.walk(root_dir)".
\* os.walk ignores the error of a directory it cannot scan and goes on.
WalkStep ==
    /\ pc = "walk"
    /\ walk_stack # <<>>
    /\ LET current_path == Head(walk_stack)
       IN IF ~(isdir(current_path) /\ fs[current_path].readable)
          THEN /\ walk_stack' = Tail(walk_stack)
               /\ UNCHANGED <<pc, exc, repo_summary, walked, opened>>
          ELSE
            \E files \in Orders(WalkFiles(current_path)),
               dirs \in Orders(WalkDirsFilter(WalkDirs(current_path))) :
               LET r == SummarizeFiles(current_path, files, 1)
               IN /\ walked' = walked \cup {current_path}
                  /\ opened' = opened \cup r.opened
                  /\ IF r.raised
                     THEN /\ pc' = "raised"
                          /\ exc' = OSError
                          /\ UNCHANGED <<repo_summary, walk_stack>>
                     ELSE /\ repo_summary' =
                                AppendEntry(repo_summary, current_path,
                                            r.summaries)
                          /\ walk_stack' =
                                [i \in 1..Len(dirs) |->
                                    Append(current_path, dirs[i])]
                                \o Tail(walk_stack)
                          /\ UNCHANGED <<pc, exc>>
    /\ UNCHANGED <<variant, root_name, fs, ignored_dirs, ignored_extensions,
                   max_file_size_bytes, max_lines, system_message,
                   user_instructions, directory_tree, listed, prompt, stdout,
                   exit_code, sum_result>>

\* os.walk is exhausted: return repo_summary
ReturnRepoSummary ==
    /\ pc = "walk"
    /\ walk_stack = <<>>
    /\ pc' = "format"
    /\ UNCHANGED <<variant, root_name, fs, ignored_dirs, ignored_extensions,
                   max_file_size_bytes, max_lines, system_message,
                   user_instructions, directory_tree, walk_stack, repo_summary,
                   listed, walked, opened, exc, prompt, stdout, exit_code,
                   sum_result>>

\* return format_prompt_xml(...)
FormatPromptXml ==
    /\ pc = "format"
    /\ prompt' = format_prompt_xml(repo_summary, directory_tree,
                                   system_message, user_instructions)
    /\ pc' = "returned"
    /\ UNCHANGED <<variant, root_name, fs, ignored_dirs, ignored_extensions,
                   max_file_size_bytes, max_lines, system_message,
                   user_instructions, directory_tree, walk_stack, repo_summary,
                   listed, walked, opened, exc, stdout, exit_code, sum_result>>

\* print(prompt)
MainPrint ==
    /\ pc = "returned"
    /\ stdout' = Append(stdout, prompt)
    /\ exit_code' = 0
    /\ pc' = "exit"
    /\ UNCHANGED <<variant, root_name, fs, ignored_dirs, ignored_extensions,
                   max_file_size_bytes, max_lines, system_message,
                   user_instructions, directory_tree, walk_stack, repo_summary,
                   listed, walked, opened, exc, prompt, sum_result>>

\* except Exception as e: print(f"Error: {e}"); sys.exit(1)
MainError ==
    /\ pc = "raised"
    /\ stdout' = Append(stdout, <<"Error: ">> \o exc)
    /\ exit_code' = 1
    /\ pc' = "exit"
    /\ UNCHANGED <<variant, root_name, fs, ignored_dirs, ignored_extensions,
                   max_file_size_bytes, max_lines, system_message,
                   user_instructions, directory_tree, walk_stack, repo_summary,
                   listed, walked, opened, exc, prompt, sum_result>>

Next ==
    \/ CheckRootDir
    \/ CreateDirectoryTree
    \/ WalkStep
    \/ ReturnRepoSummary
    \/ FormatPromptXml
    \/ MainPrint
    \/ MainError

Spec == Init /\ [][Next]_vars

(***************************************************************************)
(* summarize_text_file on its own: every short file, every small cap       *)
(***************************************************************************)
FileContents == StringsUpTo({"x", NL, CR}, MaxContentLen)

InitSummarize ==
    /\ variant \in {"generator", "repoforge"}
    /\ root_name = REPO
    /\ \E content \in FileContents, readable \in BOOLEAN :
          fs = One(<<A_TXT>>, Node("file", readable, Len(content), content))
    /\ ignored_dirs = DEFAULT_IGNORED_DIRS
    /\ ignored_extensions = DEFAULT_IGNORED_EXTENSIONS
    /\ max_file_size_bytes = MAX_FILE_SIZE_BYTES
    /\ max_lines \in 0..MaxCap
    /\ system_message = <<>>
    /\ user_instructions = <<>>
    /\ pc = "summarize"
    /\ InitControl

\* summarize_text_file(filepath, max_lines)
SummarizeTextFile ==
    /\ pc = "summarize"
    /\ sum_result' = summarize_text_file(fs[<<A_TXT>>], max_lines)
    /\ opened' = opened \cup {<<A_TXT>>}
    /\ pc' = "summarized"
    /\ UNCHANGED <<variant, root_name, fs, ignored_dirs, ignored_extensions,
                   max_file_size_bytes, max_lines, system_message,
                   user_instructions, directory_tree, walk_stack, repo_summary,
                   listed, walked, exc, prompt, stdout, exit_code>>

NextSummarize == SummarizeTextFile

SpecSummarize == InitSummarize /\ [][NextSummarize]_vars

(***************************************************************************)
(* format_prompt_xml on its own: every short pair of messages              *)
(***************************************************************************)
Messages == StringsUpTo({" ", "a", NL}, MaxMsgLen)

SampleSummaries ==
    { <<>>,
      <<[directory |-> ROOT,
         files |-> <<[name |-> A_TXT, summary |-> <<"x", NL, "x">>]>>],
        [directory |-> <<SRC>>,
         files |-> <<[name |-> A_TXT, summary |-> <<>>]>>]>> }

InitFormat ==
    /\ variant \in {"generator", "repoforge"}
    /\ root_name = REPO
    /\ fs = One(ROOT, DirNode)
    /\ ignored_dirs = DEFAULT_IGNORED_DIRS
    /\ ignored_extensions = DEFAULT_IGNORED_EXTENSIONS
    /\ max_file_size_bytes = MAX_FILE_SIZE_BYTES
    /\ max_lines = MAX_SUMMARY_LINES
    /\ system_message \in Messages
    /\ user_instructions \in Messages
    /\ pc = "format"
    /\ directory_tree = Join(NL, <<REPO \o <<"/">>,
                                   <<LAST_CONNECTOR>> \o A_TXT>>)
    /\ repo_summary \in SampleSummaries
    /\ walk_stack = <<>>
    /\ listed = {}
    /\ walked = {}
    /\ opened = {}
    /\ exc = NoException
    /\ prompt = <<>>
    /\ stdout = <<>>
    /\ exit_code = -1
    /\ sum_result = <<>>

NextFormat == FormatPromptXml

SpecFormat == InitFormat /\ [][NextFormat]_vars

(***************************************************************************)
(* Properties of summarize_text_file (checked under SpecSummarize)         *)
(***************************************************************************)
TheFile == fs[<<A_TXT>>]

\* A line without its one terminating newline.
WithoutNewline(line) ==
    IF line # <<>> /\ line[Len(line)] = NL
    THEN SubSeq(line, 1, Len(line) - 1)
    ELSE line

\* What a readable file of these lines is to be summarised as under cap.
ExpectedSummaryLines(lines, cap) ==
    [i \in 1..Min(Len(lines), cap) |-> WithoutNewline(lines[i])]
    \o (IF Len(lines) > cap THEN <<TruncatedMarker>> ELSE <<>>)

CountOf(s, c) == Cardinality({i \in 1..Len(s) : s[i] = c})

\* C3: for a readable file of n lines and a cap m >= 0, the summary is the
\* first min(n, m) lines, each without its newline, in order, followed by
\* one "... [Truncated]" line if and only if n > m; it never has more than
\* m + 1 lines.
C3_SummaryIsCappedPrefix ==
    (pc = "summarized" /\ TheFile.readable) =>
        LET lines == FileLines(TheFile.content)
        IN /\ sum_result = Join(NL, ExpectedSummaryLines(lines, max_lines))
           /\ CountOf(sum_result, NL) + 1 <= max_lines + 1
           /\ (CountOf(sum_result, "... [Truncated]") = 1)
                 <=> (Len(lines) > max_lines)
           /\ CountOf(sum_result, "... [Truncated]") <= 1

\* C3 witness: a readable file of two lines has been summarised under a
\* cap of one line, giving its first line and the marker.
C3_Witness ==
    /\ pc = "summarized"
    /\ TheFile.readable
    /\ max_lines = 1
    /\ TheFile.content = <<"x", NL, "x">>
    /\ sum_result = <<"x", NL, "... [Truncated]">>

(***************************************************************************)
(* Properties of format_prompt_xml (checked under SpecFormat)              *)
(***************************************************************************)
Occurrences(s, tok) == {i \in 1..Len(s) : s[i] = tok}

IndexOf(s, tok) ==
    CHOOSE i \in Occurrences(s, tok) : \A j \in Occurrences(s, tok) : i <= j

\* The text strictly between the lines that hold open_tag and close_tag.
Between(s, open_tag, close_tag) ==
    SubSeq(s, IndexOf(s, open_tag) + 2, IndexOf(s, close_tag) - 2)

\* t is s without its leading and trailing whitespace.
IsTrimOf(t, s) ==
    /\ t = <<>> \/ (~IsSpace(t[1]) /\ ~IsSpace(t[Len(t)]))
    /\ \E lead \in 0..Len(s) :
          /\ lead + Len(t) <= Len(s)
          /\ SubSeq(s, lead + 1, lead + Len(t)) = t
          /\ \A i \in 1..lead : IsSpace(s[i])
          /\ \A i \in (lead + Len(t) + 1)..Len(s) : IsSpace(s[i])

TagsInOrder(s) ==
    /\ \A tok \in {TREE_HEADER, SYSTEM_OPEN, SYSTEM_CLOSE, USER_OPEN,
                   USER_CLOSE, CONTENTS_OPEN, CONTENTS_CLOSE} :
          Cardinality(Occurrences(s, tok)) = 1
    /\ IndexOf(s, TREE_HEADER) = 1
    /\ IndexOf(s, TREE_HEADER) < IndexOf(s, SYSTEM_OPEN)
    /\ IndexOf(s, SYSTEM_OPEN) < IndexOf(s, SYSTEM_CLOSE)
    /\ IndexOf(s, SYSTEM_CLOSE) < IndexOf(s, USER_OPEN)
    /\ IndexOf(s, USER_OPEN) < IndexOf(s, USER_CLOSE)
    /\ IndexOf(s, USER_CLOSE) < IndexOf(s, CONTENTS_OPEN)
    /\ IndexOf(s, CONTENTS_OPEN) < IndexOf(s, CONTENTS_CLOSE)
    /\ IndexOf(s, CONTENTS_CLOSE) = Len(s)

\* The tree string sits between the header and the blank line that
\* precedes the system message.
TreeFollowsHeader(s, tree) ==
    SubSeq(s, 2, IndexOf(s, SYSTEM_OPEN) - 1) = <<NL>> \o tree \o <<NL, NL>>

\* C9: between the SYSTEM_MESSAGE tags stands the trimmed system message,
\* or "No system message provided." when it is empty; likewise for the
\* user instructions; the sections come in the order tree header, system
\* message, user instructions, repository contents.
C9_MessagesTrimmedOrFallback ==
    (pc = "returned") =>
        /\ TagsInOrder(prompt)
        /\ TreeFollowsHeader(prompt, directory_tree)
        /\ prompt[IndexOf(prompt, SYSTEM_OPEN) + 1] = NL
        /\ prompt[IndexOf(prompt, SYSTEM_CLOSE) - 1] = NL
        /\ prompt[IndexOf(prompt, USER_OPEN) + 1] = NL
        /\ prompt[IndexOf(prompt, USER_CLOSE) - 1] = NL
        /\ IF system_message = <<>>
           THEN Between(prompt, SYSTEM_OPEN, SYSTEM_CLOSE) = NO_SYSTEM_MESSAGE
           ELSE IsTrimOf(Between(prompt, SYSTEM_OPEN, SYSTEM_CLOSE),
                         system_message)
        /\ IF user_instructions = <<>>
           THEN Between(prompt, USER_OPEN, USER_CLOSE) = NO_USER_INSTRUCTIONS
           ELSE IsTrimOf(Between(prompt, USER_OPEN, USER_CLOSE),
                         user_instructions)

\* C9 witness: a system message with whitespace on both sides and empty
\* user instructions have been formatted.
C9_Witness ==
    /\ pc = "returned"
    /\ system_message = <<" ", "a", NL>>
    /\ user_instructions = <<>>
    /\ repo_summary # <<>>
    /\ Between(prompt, SYSTEM_OPEN, SYSTEM_CLOSE) = <<"a">>

(***************************************************************************)
(* Reading the outputs back                                                *)
(***************************************************************************)
\* The lines of the rendered tree; line 1 is the root's.
TreeLines == Split(directory_tree)

IsConnector(tok) == tok \in {LAST_CONNECTOR, MID_CONNECTOR}

\* The position of a line's connector; what precedes it is indentation.
ConnectorAt(line) == CHOOSE i \in 1..Len(line) : IsConnector(line[i])
Depth(line) == ConnectorAt(line) - 1
ConnectorOf(line) == line[ConnectorAt(line)]
IsDirLine(line) == line[Len(line)] = "/"
LineName(line) ==
    SubSeq(line, ConnectorAt(line) + 1,
           IF IsDirLine(line) THEN Len(line) - 1 ELSE Len(line))

\* Line j belongs to the subtree of line i: every line after i up to j is
\* deeper than i.
IsBelow(lines, i, j) ==
    /\ i < j
    /\ \A k \in (i + 1)..j : Depth(lines[k]) > Depth(lines[i])

\* Line i is the last line emitted for a child of its directory.
IsLastEmittedSibling(lines, i) ==
    ~ \E j \in (i + 1)..Len(lines) :
          /\ Depth(lines[j]) = Depth(lines[i])
          /\ \A k \in (i + 1)..(j - 1) : Depth(lines[k]) > Depth(lines[i])

\* The path a tree line stands for, by the nearest shallower line above it.
RECURSIVE TreePath(_, _)
TreePath(lines, i) ==
    IF i = 1 THEN ROOT
    ELSE LET above == {k \in 2..(i - 1) :
                          Depth(lines[k]) = Depth(lines[i]) - 1}
             parent == IF above = {} THEN 1
                       ELSE CHOOSE k \in above : \A m \in above : m <= k
         IN Append(TreePath(lines, parent), LineName(lines[i]))

TreePaths == {TreePath(TreeLines, i) : i \in 2..Len(TreeLines)}
TreeFilePaths ==
    {TreePath(TreeLines, i) :
        i \in {k \in 2..Len(TreeLines) : ~IsDirLine(TreeLines[k])}}

\* The directories that have an entry, and the files that have a summary.
EntryDirs == {repo_summary[i].directory : i \in 1..Len(repo_summary)}
SummaryFilePaths ==
    UNION {{Append(repo_summary[i].directory, repo_summary[i].files[k].name) :
               k \in 1..Len(repo_summary[i].files)} :
           i \in 1..Len(repo_summary)}

\* The summary recorded for the file at path, if it has one.
SummaryOf(path) ==
    LET i == CHOOSE n \in 1..Len(repo_summary) :
                 repo_summary[n].directory = SubSeq(path, 1, Len(path) - 1)
        k == CHOOSE n \in 1..Len(repo_summary[i].files) :
                 repo_summary[i].files[n].name = path[Len(path)]
    IN repo_summary[i].files[k].summary

Parent(path) == SubSeq(path, 1, Len(path) - 1)
BaseName(path) == path[Len(path)]

\* path is, or lies beneath, a directory below the root whose name is in
\* the ignored set.
UnderIgnoredDir(path) ==
    \E k \in 1..Len(path) :
        path[k] \in ignored_dirs /\ isdir(SubSeq(path, 1, k))

\* Nothing has visited path and no output mentions it.
Unreported(path) ==
    /\ path \notin listed
    /\ path \notin walked
    /\ path \notin opened
    /\ path \notin EntryDirs
    /\ path \notin SummaryFilePaths
    /\ directory_tree # <<>> => path \notin TreePaths

\* create_repo_summary has returned its list.
SummaryReturned == pc \in {"format", "returned"} \/ (pc = "exit" /\ exit_code = 0)

(***************************************************************************)
(* C1: ignored directories                                                 *)
(***************************************************************************)
\* C1 as stated: a directory whose name is in the ignored set, at any
\* depth (the root included), is never visited and neither it nor anything
\* beneath it is reported by the summary or by the tree.
C1_IgnoredNeverVisited_Original ==
    /\ \A path \in DOMAIN fs : UnderIgnoredDir(path) => Unreported(path)
    /\ (isdir(ROOT) /\ root_name \in ignored_dirs) =>
           /\ ROOT \notin listed
           /\ ROOT \notin walked
           /\ ROOT \notin EntryDirs
           /\ directory_tree = <<>>

\* C1 amended: a directory below the root whose name is in the ignored set
\* is never visited, and neither it nor anything beneath it is reported by
\* the summary or by the tree.
C1_IgnoredBelowRootNeverVisited ==
    \A path \in DOMAIN fs : UnderIgnoredDir(path) => Unreported(path)

\* C1 witness: both walks are over; .git at depth 1 and at depth 2 hold
\* eligible files, and the summary has entries for other directories.
C1_Witness ==
    /\ pc = "format"
    /\ GIT \in ignored_dirs
    /\ <<GIT, SRC, A_TXT>> \in DOMAIN fs
    /\ <<SRC, GIT, C_TXT>> \in DOMAIN fs
    /\ <<SRC>> \in EntryDirs
    /\ <<SRC>> \in TreePaths

(***************************************************************************)
(* C2: files over the size limit                                           *)
(***************************************************************************)
\* The files create_repo_summary compares with the size limit: plain files
\* whose extension is not filtered.
SizedFiles ==
    {path \in DOMAIN fs : /\ path # ROOT
                          /\ fs[path].kind = "file"
                          /\ ~ExtIgnored(BaseName(path))}

\* C2: a file whose extension is not ignored and whose size is greater
\* than the maximum is never opened, and its recorded summary is exactly
\* "File size ({size} bytes) exceeds limit; skipping content."; a file
\* whose size equals the maximum is read.
C2_OversizeNeverRead ==
    \A path \in SizedFiles :
        /\ fs[path].size > max_file_size_bytes =>
              /\ path \notin opened
              /\ Parent(path) \in EntryDirs =>
                    /\ path \in SummaryFilePaths
                    /\ SummaryOf(path) =
                          <<"File size (", ToString(fs[path].size),
                            " bytes) exceeds limit; skipping content.">>
        /\ (fs[path].size = max_file_size_bytes /\ Parent(path) \in EntryDirs) =>
              /\ path \in opened
              /\ path \in SummaryFilePaths
              /\ SummaryOf(path) = summarize_text_file(fs[path], max_lines)

\* C2 witness: the summary holds one file over the limit and one exactly
\* at it.
C2_Witness ==
    /\ SummaryReturned
    /\ <<A_TXT>> \in SummaryFilePaths
    /\ fs[<<A_TXT>>].size = max_file_size_bytes
    /\ <<Z_PNG>> \in SummaryFilePaths
    /\ fs[<<Z_PNG>>].size > max_file_size_bytes

(***************************************************************************)
(* C4, C5: failures                                                        *)
(***************************************************************************)
\* C4: once the root check has passed, no failure on a single file or
\* directory aborts the run: the directory-existence error is the only
\* exception that leaves generate_prompt.
C4_OnlyRootCheckEscapes ==
    exc # NoException => exc = ValueError

\* C5: when the root is missing or is no directory, generate_prompt fails
\* with the directory-not-found error before anything is listed, walked or
\* read and without any output; the CLI then prints the one line
\* "Error: {message}" and exits with status 1.
C5_BadRootFailsFirst ==
    (~isdir(ROOT) /\ pc # "start") =>
        /\ pc \in {"raised", "exit"}
        /\ exc = ValueError
        /\ listed = {} /\ walked = {} /\ opened = {}
        /\ directory_tree = <<>> /\ repo_summary = <<>> /\ prompt = <<>>
        /\ pc = "raised" => (stdout = <<>> /\ exit_code = -1)
        /\ pc = "exit" =>
              /\ stdout = <<<<"Error: ",
                              "Directory {repo_dir} does not exist.">>>>
              /\ exit_code = 1

\* C5 witness: the CLI has exited on a root path that is a plain file.
C5_Witness ==
    /\ pc = "exit"
    /\ ROOT \in DOMAIN fs
    /\ fs[ROOT].kind = "file"
    /\ exit_code = 1

(***************************************************************************)
(* C6, C7: directory entries and the extension filter                      *)
(***************************************************************************)
\* The directories create_repo_summary is to visit: the root and every
\* directory below it that is not under an ignored name.
NonIgnoredDirs ==
    {path \in DOMAIN fs : isdir(path) /\ ~UnderIgnoredDir(path)}

\* The names of the non-directory entries of path that pass the extension
\* filter.
EligibleFiles(path) ==
    {n \in ChildNames(path) : ~isdir(Append(path, n)) /\ ~ExtIgnored(n)}

ExtMatchesIgnoringCase(name) ==
    \E e \in ignored_extensions : Lower(e) = Lower(splitext(name))

\* C7: a file whose extension equals a member of the ignored-extension
\* set, letter case aside, has no FileSummary at all, whatever its size
\* and whatever set the caller supplies.
C7_IgnoredExtensionCaseInsensitive ==
    \A path \in SummaryFilePaths : ~ExtMatchesIgnoringCase(BaseName(path))

(***************************************************************************)
(* C8, C10: the rendered tree                                              *)
(***************************************************************************)
\* C8: among the lines emitted for the children of one directory the last
\* carries the last-sibling connector and the others the mid-sibling
\* connector; the lines beneath a directory's line follow it at once and
\* are indented, at that directory's depth, with blanks when it is the
\* last sibling and with a bar otherwise.
C8_ConnectorsMarkLastSibling ==
    directory_tree # <<>> =>
        LET lines == TreeLines
        IN \A i \in 2..Len(lines) :
              /\ ConnectorOf(lines[i]) =
                    (IF IsLastEmittedSibling(lines, i)
                     THEN LAST_CONNECTOR ELSE MID_CONNECTOR)
              /\ \A j \in (i + 1)..Len(lines) :
                    IsBelow(lines, i, j) =>
                        lines[j][Depth(lines[i]) + 1] =
                            (IF IsLastEmittedSibling(lines, i)
                             THEN LAST_INDENT ELSE MID_INDENT)
              /\ TreePath(lines, i) \in DOMAIN fs
              /\ IsDirLine(lines[i]) <=> isdir(TreePath(lines, i))

\* The file system holds plain files and directories only.
PlainTree == \A path \in DOMAIN fs : fs[path].kind \in {"file", "dir"}

\* C10: in generator.py, over plain files and directories, a file has a
\* line in the tree if and only if it has a FileSummary.
C10_TreeAndSummaryAgree ==
    (variant = "generator" /\ PlainTree /\ SummaryReturned) =>
        TreeFilePaths = SummaryFilePaths

====
